---- MODULE Spec2Model ----
(***************************************************************************)
(* A state-machine model of welding_demo_node.cpp: main() sets up a node,  *)
(* a detached executor thread and the visual tools, then loops forever     *)
(* over  prompt -> build waypoint ring -> computeCartesianPath ->          *)
(* visualize -> prompt -> execute -> clear markers.                        *)
(*                                                                         *)
(* Numbers: doubles are fixed-point integers with Scale units per 1.0;     *)
(* angles are integers in micro-radians.                                   *)
(***************************************************************************)
EXTENDS Integers, Sequences, FiniteSets, TLC

\* ---------------------------------------------------------------- bounds
\* The iteration and call counters stop counting (saturate) at MaxIter; the
\* loop itself goes on.
MaxIter == 2

\* ------------------------------------------------------------- arithmetic
\* Fixed-point unit of a double: 1.0 is Scale.
Scale == 20000

\* M_PI (math.h) in micro-radians, truncated.
M_PI == 3141592

\* The float step of the for loop, 0.5 rad, in micro-radians.
AngleStep == 500000

\* Eigen's NumTraits<double>::dummy_precision() (1e-12): the smallest
\* positive fixed-point number.
DummyPrecision == 1

Min(a, b) == IF a < b THEN a ELSE b

\* Round (n / d) to the nearest integer, d > 0.
RDiv(n, d) == (2 * n + d) \div (2 * d)

RECURSIVE SqrtSearch(_, _, _)
SqrtSearch(n, lo, hi) ==
  IF lo >= hi THEN lo
  ELSE LET mid == (lo + hi + 1) \div 2
       IN  IF mid * mid <= n THEN SqrtSearch(n, mid, hi)
           ELSE SqrtSearch(n, lo, mid - 1)

\* floor(sqrt(n)) for 0 <= n < 2^31.
ISqrt(n) == SqrtSearch(n, 0, 46340)

\* sqrt of a fixed-point number, as a fixed-point number.
FxSqrt(a) == ISqrt(a * Scale)

\* cos and sin of math.h at the arguments the program can pass.
cos(x) ==
  CASE x = -1679204 -> -2164
    [] x = -1429204 -> 2822
    [] x = -1179204 -> 7633
    [] x = -929204 -> 11969
    [] x = -679204 -> 15561
    [] x = -429204 -> 18186
    [] x = -179204 -> 19680
    [] x = 0 -> 20000
    [] x = 70796 -> 19950
    [] x = 250000 -> 19378
    [] x = 320796 -> 18980
    [] x = 500000 -> 17552
    [] x = 570796 -> 16829
    [] x = 750000 -> 14634
    [] x = 820796 -> 13633
    [] x = 1000000 -> 10806
    [] x = 1070796 -> 9589
    [] x = 1250000 -> 6306
    [] x = 1320796 -> 4948
    [] x = 1500000 -> 1415
    [] x = 1570796 -> 0
    [] x = 1750000 -> -3565
    [] x = 2000000 -> -8323
    [] x = 2250000 -> -12563
    [] x = 2500000 -> -16023
    [] x = 2750000 -> -18486
    [] x = 3000000 -> -19800
    [] x = 3250000 -> -19883
    [] x = 3500000 -> -18729
    [] x = 4000000 -> -13073
    [] x = 4500000 -> -4216
    [] x = 5000000 -> 5673
    [] x = 5500000 -> 14173
    [] x = 6000000 -> 19203
    [] x = 6500000 -> 19532

sin(x) ==
  CASE x = -1679204 -> -19883
    [] x = -1429204 -> -19800
    [] x = -1179204 -> -18486
    [] x = -929204 -> -16023
    [] x = -679204 -> -12563
    [] x = -429204 -> -8323
    [] x = -179204 -> -3565
    [] x = 0 -> 0
    [] x = 70796 -> 1415
    [] x = 250000 -> 4948
    [] x = 320796 -> 6306
    [] x = 500000 -> 9589
    [] x = 570796 -> 10806
    [] x = 750000 -> 13633
    [] x = 820796 -> 14634
    [] x = 1000000 -> 16829
    [] x = 1070796 -> 17552
    [] x = 1250000 -> 18980
    [] x = 1320796 -> 19378
    [] x = 1500000 -> 19950
    [] x = 1570796 -> 20000
    [] x = 1750000 -> 19680
    [] x = 2000000 -> 18186
    [] x = 2250000 -> 15561
    [] x = 2500000 -> 11969
    [] x = 2750000 -> 7633
    [] x = 3000000 -> 2822
    [] x = 3250000 -> -2164
    [] x = 3500000 -> -7016
    [] x = 4000000 -> -15136
    [] x = 4500000 -> -19551
    [] x = 5000000 -> -19178
    [] x = 5500000 -> -14111
    [] x = 6000000 -> -5588
    [] x = 6500000 -> 4302

\* ---------------------------------------------------------------- geometry
\* Vectors are <<x, y, z>>, quaternions are <<x, y, z, w>>.
Vec3Add(a, b) == <<a[1] + b[1], a[2] + b[2], a[3] + b[3]>>

Dot(a, b) == a[1] * b[1] + a[2] * b[2] + a[3] * b[3]

Cross(a, b) ==
  << RDiv(a[2] * b[3] - a[3] * b[2], Scale),
     RDiv(a[3] * b[1] - a[1] * b[3], Scale),
     RDiv(a[1] * b[2] - a[2] * b[1], Scale) >>

\* tf2::Quaternion::setRPY(0, 0, yaw): only the yaw half-angle is non-zero.
setRPY_yaw(yaw) ==
  LET halfYaw == yaw \div 2
  IN  <<0, 0, sin(halfYaw), cos(halfYaw)>>

\* tf2: operator*(Quaternion, Vector3).
QuatTimesVec(q, w) ==
  << RDiv(q[4] * w[1] + q[2] * w[3] - q[3] * w[2], Scale),
     RDiv(q[4] * w[2] + q[3] * w[1] - q[1] * w[3], Scale),
     RDiv(q[4] * w[3] + q[1] * w[2] - q[2] * w[1], Scale),
     RDiv(0 - q[1] * w[1] - q[2] * w[2] - q[3] * w[3], Scale) >>

\* tf2::Quaternion::operator*=.
QuatMul(p, q) ==
  << RDiv(p[4] * q[1] + p[1] * q[4] + p[2] * q[3] - p[3] * q[2], Scale),
     RDiv(p[4] * q[2] + p[2] * q[4] + p[3] * q[1] - p[1] * q[3], Scale),
     RDiv(p[4] * q[3] + p[3] * q[4] + p[1] * q[2] - p[2] * q[1], Scale),
     RDiv(p[4] * q[4] - p[1] * q[1] - p[2] * q[2] - p[3] * q[3], Scale) >>

QuatInverse(q) == <<0 - q[1], 0 - q[2], 0 - q[3], q[4]>>

\* tf2::quatRotate(rotation, v).
quatRotate(rotation, v) ==
  LET q == QuatMul(QuatTimesVec(rotation, v), QuatInverse(rotation))
  IN  <<q[1], q[2], q[3]>>

\* Eigen: v.normalized().
Normalized(v) ==
  LET n == ISqrt(Dot(v, v))
  IN  <<RDiv(v[1] * Scale, n), RDiv(v[2] * Scale, n), RDiv(v[3] * Scale, n)>>

\* The unit axes the SVD of the antiparallel branch can return for a vector
\* along x: any unit vector orthogonal to it; which one depends on the build.
SvdAxes == { <<0, 0, Scale>>, <<0, 0, 0 - Scale>>, <<0, Scale, 0>>, <<0, 0 - Scale, 0>> }

\* Eigen::Quaterniond::FromTwoVectors(a, b); axis is what the SVD returns
\* when a and b are antiparallel.
FromTwoVectors(a, b, axis) ==
  LET v0 == Normalized(a)
      v1 == Normalized(b)
      c  == RDiv(Dot(v1, v0), Scale)
  IN  IF c < DummyPrecision - Scale
      THEN LET w2 == (Scale + c) \div 2
               k  == FxSqrt(Scale - w2)
           IN  << RDiv(axis[1] * k, Scale), RDiv(axis[2] * k, Scale),
                  RDiv(axis[3] * k, Scale), FxSqrt(w2) >>
      ELSE LET ax == Cross(v0, v1)
               s  == FxSqrt((Scale + c) * 2)
           IN  << RDiv(ax[1] * Scale, s), RDiv(ax[2] * Scale, s),
                  RDiv(ax[3] * Scale, s), s \div 2 >>

\* tf2::Vector3 center_pos(0.2, 0, 0.8).
center_pos == <<(2 * Scale) \div 10, 0, (8 * Scale) \div 10>>

\* goal_dir = (1, 0, 0) * 0.2: the forward unit vector times the radius.
goal_dir == <<(2 * Scale) \div 10, 0, 0>>

\* The forward direction vec2 = (1, 0, 0).
vec2 == <<Scale, 0, 0>>

\* The rotation used for the position of the waypoint at `a`.
PositionRot(a) == setRPY_yaw(a)

\* The rotation used for the normal of the waypoint at `a`.
MutNormalRot(a) == setRPY_yaw(a)

NormalRot(a) == setRPY_yaw(M_PI - a)

\* The pose the for body builds for angle `a`.
PoseAt(a, axis) ==
  LET goal_pos == Vec3Add(center_pos, quatRotate(PositionRot(a), goal_dir))
      norm_vec == quatRotate(NormalRot(a), goal_dir)
      quat     == FromTwoVectors(norm_vec, vec2, axis)
  IN  [position |-> goal_pos, orientation |-> quat]

\* The angles the float loop variable can take: multiples of the step.
LoopAngles == { k * AngleStep : k \in 0..13 }

\* The poses of all loop angles, computed once.
PoseTable == { <<a, axis, PoseAt(a, axis)>> : a \in LoopAngles, axis \in SvdAxes }

\* One pass of the for body: the pose pushed for angle `a`.
RobotPose(a, axis) == (CHOOSE t \in PoseTable : t[1] = a /\ t[2] = axis)[3]

\* ------------------------------------------------------------------ state
VARIABLES
  pc,               \* position of main()
  spin_threads,     \* number of detached threads running executor.spin()
  executor,         \* "none", "alive" or "destroyed"
  svd_axis,         \* the axis this build's SVD returns (fixed for a run)
  remote_control,   \* loadRemoteControl() has been called
  next_pressed,     \* a 'next' press of the operator not yet dispatched
  is_waiting,       \* main() is blocked in prompt()
  next_step_ready,  \* the pending prompt has been confirmed
  batch,            \* marker operations queued since the last trigger()
  displayed,        \* markers shown after the last trigger()
  angle,            \* the for loop's float angle, micro-radians
  waypoints,        \* std::vector<geometry_msgs::msg::Pose>
  q_rot,            \* tf2::Quaternion q_rot
  trajectory,       \* moveit_msgs::msg::RobotTrajectory
  fraction,         \* double fraction
  planner_input,    \* history: the list last passed to computeCartesianPath
  prev_planner_input, \* history: the list passed one iteration earlier
  planner_written,  \* history: what computeCartesianPath wrote this iteration
  exec_arg,         \* history: the trajectory last passed to execute
  exec_result,      \* the error code execute returned (discarded by main)
  log,              \* lines logged since the current iteration began
  steps,            \* history: the steps completed in the current iteration
  iter,             \* history: completed iterations, saturating
  n_exec_confirmed, \* history: confirmed 'execute' prompts, saturating
  n_execute         \* history: calls of move_group.execute, saturating

vars == << pc, spin_threads, executor, svd_axis, remote_control, next_pressed,
           is_waiting, next_step_ready, batch, displayed, angle, waypoints,
           q_rot, trajectory, fraction, planner_input, prev_planner_input,
           planner_written, exec_arg, exec_result, log, steps, iter,
           n_exec_confirmed, n_execute >>

rcVars   == <<remote_control, is_waiting, next_step_ready>>
envVars  == <<next_pressed>>
thrVars  == <<spin_threads, executor, svd_axis>>
visVars  == <<batch, displayed>>
ringVars == <<angle, waypoints, q_rot>>
planVars == <<trajectory, fraction, planner_input, prev_planner_input, planner_written>>
execVars == <<exec_arg, exec_result, n_execute>>
histVars == <<steps, iter, n_exec_confirmed>>

\* The empty RobotTrajectory message.
EmptyTrajectory == <<>>

\* The values computeCartesianPath reports on success: nothing, half, all.
Fractions == {0, Scale \div 2, Scale}

\* The value computeCartesianPath returns when the service call fails: -1.0.
FailedFraction == 0 - Scale

\* The error codes execute can return.
ErrorCodes == {"SUCCESS", "FAILURE"}

Sat(n) == Min(n + 1, MaxIter)

Init ==
  /\ pc = "start"
  /\ spin_threads = 0
  /\ executor = "none"
  /\ svd_axis \in SvdAxes
  /\ remote_control = FALSE
  /\ next_pressed = FALSE
  /\ is_waiting = FALSE
  /\ next_step_ready = FALSE
  /\ batch = <<>>
  /\ displayed = <<>>
  /\ angle = 0
  /\ waypoints = <<>>
  /\ q_rot = <<0, 0, 0, Scale>>
  /\ trajectory = EmptyTrajectory
  /\ fraction = 0
  /\ planner_input = <<>>
  /\ prev_planner_input = <<>>
  /\ planner_written = EmptyTrajectory
  /\ exec_arg = EmptyTrajectory
  /\ exec_result = "NONE"
  /\ log = <<>>
  /\ steps = <<>>
  /\ iter = 0
  /\ n_exec_confirmed = 0
  /\ n_execute = 0

\* ---------------------------------------------------------------- markers
DeleteAllOp == [op |-> "DELETEALL"]

AddOp(m) == [op |-> "ADD", marker |-> m]

\* publishText(text_pose, text) with the default static id: one text marker
\* of fixed id, which a later publishText replaces.
TextMarker(text) == [kind |-> "text", text |-> text]

\* publishPath(waypoints, ...): the path through the positions of the poses.
PathMarker(poses) ==
  [kind |-> "path", points |-> [i \in 1..Len(poses) |-> poses[i].position]]

\* publishAxisLabeled(pose, label, ...).
AxisMarker(pose, label) == [kind |-> "axis", pose |-> pose, label |-> label]

Digits == <<"0", "1", "2", "3", "4", "5", "6", "7", "8", "9">>

\* std::to_string(i) for a std::size_t.
RECURSIVE to_string(_)
to_string(i) ==
  IF i < 10 THEN Digits[i + 1]
  ELSE to_string(i \div 10) \o Digits[(i % 10) + 1]

\* The marker list after one queued operation reaches the display.
ApplyOp(shown, o) ==
  IF o.op = "DELETEALL" THEN <<>>
  ELSE IF o.marker.kind = "text" /\ \E i \in 1..Len(shown) : shown[i].kind = "text"
       THEN [i \in 1..Len(shown) |->
               IF shown[i].kind = "text" THEN o.marker ELSE shown[i]]
       ELSE Append(shown, o.marker)

RECURSIVE ApplyBatch(_, _)
ApplyBatch(shown, ops) ==
  IF ops = <<>> THEN shown
  ELSE ApplyBatch(ApplyOp(shown, Head(ops)), Tail(ops))

\* The publishAxisLabeled calls of the loop over waypoints, in order.
MutAxisOps(poses) ==
  [i \in 1..Len(poses) |-> AddOp(AxisMarker(poses[i], "pt" \o to_string(i)))]

AxisOps(poses) ==
  [i \in 1..Len(poses) |-> AddOp(AxisMarker(poses[i], "pt" \o to_string(i - 1)))]

\* ------------------------------------------------------------------ setup
\* rclcpp::init, the node, the executor and the detached spin thread.
MutStartSpinThread ==
  /\ pc = "start"
  /\ executor' = "alive"
  /\ pc' = "setup"
  /\ UNCHANGED << spin_threads, svd_axis, rcVars, envVars, visVars, ringVars,
                  planVars, execVars, histVars, log >>

StartSpinThread ==
  /\ pc = "start"
  /\ executor' = "alive"
  /\ spin_threads' = spin_threads + 1
  /\ pc' = "setup"
  /\ UNCHANGED << svd_axis, rcVars, envVars, visVars, ringVars, planVars,
                  execVars, histVars, log >>

\* move_group, visual_tools, deleteAllMarkers, loadRemoteControl, publishText.
SetupVisualTools ==
  /\ pc = "setup"
  /\ batch' = batch \o <<DeleteAllOp, AddOp(TextMarker("MoveGroupInterface_Demo"))>>
  /\ remote_control' = TRUE
  /\ pc' = "setup_trigger"
  /\ UNCHANGED << thrVars, envVars, is_waiting, next_step_ready, displayed,
                  ringVars, planVars, execVars, histVars, log >>

\* visual_tools.trigger(): the queued operations reach the display.
TriggerTo(next) ==
  /\ displayed' = ApplyBatch(displayed, batch)
  /\ batch' = <<>>
  /\ pc' = next

SetupTrigger ==
  /\ pc = "setup_trigger"
  /\ TriggerTo("info")
  /\ UNCHANGED << thrVars, rcVars, envVars, ringVars, planVars, execVars,
                  histVars, log >>

\* The three RCLCPP_INFO lines and the list of group names.
PrintInfo ==
  /\ pc = "info"
  /\ log' = log \o << [msg |-> "Planning frame", value |-> "frame"],
                      [msg |-> "End effector link", value |-> "link"],
                      [msg |-> "Available Planning Groups:", value |-> ""] >>
  /\ pc' = "loop"
  /\ UNCHANGED << thrVars, rcVars, envVars, visVars, ringVars, planVars,
                  execVars, histVars >>

\* ------------------------------------------------------------- the prompts
\* visual_tools.prompt(...): main() blocks until the operator confirms.
PromptCall(next) ==
  /\ is_waiting' = TRUE
  /\ next_step_ready' = FALSE
  /\ pc' = next
  /\ UNCHANGED remote_control

PromptReturn(next) ==
  /\ is_waiting
  /\ next_step_ready
  /\ is_waiting' = FALSE
  /\ next_step_ready' = FALSE
  /\ pc' = next
  /\ UNCHANGED remote_control

\* The operator presses 'next' in the RvizVisualToolsGui window.
OperatorNext ==
  /\ ~next_pressed
  /\ next_pressed' = TRUE
  /\ UNCHANGED << pc, thrVars, rcVars, visVars, ringVars, planVars, execVars,
                  histVars, log >>

\* The spin thread dispatches the press to the remote control, which takes
\* it only while a prompt is waiting.
SpinThread ==
  /\ spin_threads > 0
  /\ executor = "alive"
  /\ next_pressed
  /\ next_pressed' = FALSE
  /\ next_step_ready' = (is_waiting \/ next_step_ready)
  /\ UNCHANGED << pc, thrVars, remote_control, is_waiting, visVars, ringVars,
                  planVars, execVars, histVars, log >>

\* ---------------------------------------------------------------- the loop
\* while (1)
MutLoopCond == iter < 1

LoopCond == 1 # 0

\* The loop test; were it false, rclcpp::shutdown() and return 0 would run
\* and main()'s locals, the executor among them, would be destroyed.
LoopHead ==
  /\ pc = "loop"
  /\ IF LoopCond
       THEN /\ pc' = "prompt_plan"
            /\ UNCHANGED executor
       ELSE /\ pc' = "exited"
            /\ executor' = "destroyed"
  /\ steps' = <<>>
  /\ log' = <<>>
  /\ UNCHANGED << spin_threads, svd_axis, rcVars, envVars, visVars, ringVars,
                  planVars, execVars, iter, n_exec_confirmed >>

MutPromptPlan ==
  /\ pc = "prompt_plan"
  /\ pc' = "declare"
  /\ UNCHANGED << thrVars, rcVars, envVars, visVars, ringVars, planVars,
                  execVars, histVars, log >>

PromptPlan ==
  /\ pc = "prompt_plan"
  /\ PromptCall("wait_plan")
  /\ UNCHANGED << thrVars, envVars, visVars, ringVars, planVars, execVars,
                  histVars, log >>

PromptPlanReturn ==
  /\ pc = "wait_plan"
  /\ PromptReturn("declare")
  /\ steps' = Append(steps, "prompt_plan")
  /\ UNCHANGED << thrVars, envVars, visVars, ringVars, planVars, execVars,
                  iter, n_exec_confirmed, log >>

\* The declarations of the loop body and the for loop's initialisation.
DeclareWaypoints ==
  /\ pc = "declare"
  /\ waypoints' = <<>>
  /\ q_rot' = <<0, 0, 0, Scale>>
  /\ angle' = 0
  /\ pc' = "for"
  /\ UNCHANGED << thrVars, rcVars, envVars, visVars, planVars, execVars,
                  histVars, log >>

\* angle < 2 * M_PI
MutForCond(a) == a < M_PI

ForCond(a) == a < 2 * M_PI

\* One pass of the for body, with angle += 0.5.
ForBody ==
  /\ pc = "for"
  /\ ForCond(angle)
  /\ waypoints' = Append(waypoints, RobotPose(angle, svd_axis))
  /\ q_rot' = NormalRot(angle)
  /\ log' = Append(log, [msg |-> "q_rot", value |-> q_rot'])
  /\ angle' = angle + AngleStep
  /\ UNCHANGED << pc, thrVars, rcVars, envVars, visVars, planVars, execVars,
                  histVars >>

ForExit ==
  /\ pc = "for"
  /\ ~ForCond(angle)
  /\ pc' = "declare_trajectory"
  /\ steps' = Append(steps, "build_ring")
  /\ UNCHANGED << thrVars, rcVars, envVars, visVars, ringVars, planVars,
                  execVars, iter, n_exec_confirmed, log >>

\* moveit_msgs::msg::RobotTrajectory trajectory; and the two constants.
MutDeclareTrajectory ==
  /\ pc = "declare_trajectory"
  /\ pc' = "compute"
  /\ UNCHANGED << trajectory, fraction, planner_input, prev_planner_input,
                  planner_written, thrVars, rcVars, envVars, visVars, ringVars,
                  execVars, histVars, log >>

DeclareTrajectory ==
  /\ pc = "declare_trajectory"
  /\ trajectory' = EmptyTrajectory
  /\ pc' = "compute"
  /\ UNCHANGED << fraction, planner_input, prev_planner_input, planner_written,
                  thrVars, rcVars, envVars, visVars, ringVars, execVars,
                  histVars, log >>

\* The solution the planner returns for `poses` at achieved fraction f: the
\* indices of the waypoints it reaches.
Solution(poses, f) == [i \in 1..((Len(poses) * f) \div Scale) |-> i]

\* fraction = move_group.computeCartesianPath(waypoints, ..., trajectory):
\* on success the solution is written and its fraction returned; on failure
\* -1.0 is returned and the trajectory is left as it was.
ComputeCartesianPath ==
  /\ pc = "compute"
  /\ prev_planner_input' = planner_input
  /\ planner_input' = waypoints
  /\ \/ \E f \in Fractions :
          /\ fraction' = f
          /\ trajectory' = Solution(waypoints, f)
          /\ planner_written' = Solution(waypoints, f)
     \/ /\ fraction' = FailedFraction
        /\ planner_written' = EmptyTrajectory
        /\ UNCHANGED trajectory
  /\ steps' = Append(steps, "computeCartesianPath")
  /\ pc' = "log_fraction"
  /\ UNCHANGED << thrVars, rcVars, envVars, visVars, ringVars, execVars, iter,
                  n_exec_confirmed, log >>

\* RCLCPP_INFO(..., fraction * 100.0)
MutLogFraction ==
  /\ pc = "log_fraction"
  /\ log' = Append(log, [msg |-> "achieved", value |-> fraction * 100])
  /\ pc' = IF fraction < Scale THEN "loop" ELSE "visualize"
  /\ UNCHANGED << thrVars, rcVars, envVars, visVars, ringVars, planVars,
                  execVars, histVars >>

LogFraction ==
  /\ pc = "log_fraction"
  /\ log' = Append(log, [msg |-> "achieved", value |-> fraction * 100])
  /\ pc' = "visualize"
  /\ UNCHANGED << thrVars, rcVars, envVars, visVars, ringVars, planVars,
                  execVars, histVars >>

\* deleteAllMarkers, publishText, publishPath and the publishAxisLabeled loop.
Visualize ==
  /\ pc = "visualize"
  /\ batch' = batch \o << DeleteAllOp, AddOp(TextMarker("Cartesian_Path")),
                          AddOp(PathMarker(waypoints)) >> \o AxisOps(waypoints)
  /\ pc' = "trigger"
  /\ UNCHANGED << displayed, thrVars, rcVars, envVars, ringVars, planVars,
                  execVars, histVars, log >>

VisualizeTrigger ==
  /\ pc = "trigger"
  /\ TriggerTo("prompt_exec")
  /\ steps' = Append(steps, "publish")
  /\ UNCHANGED << thrVars, rcVars, envVars, ringVars, planVars, execVars, iter,
                  n_exec_confirmed, log >>

MutPromptExecute ==
  /\ pc = "prompt_exec"
  /\ pc' = "execute"
  /\ UNCHANGED << thrVars, rcVars, envVars, visVars, ringVars, planVars,
                  execVars, histVars, log >>

PromptExecute ==
  /\ pc = "prompt_exec"
  /\ PromptCall("wait_exec")
  /\ UNCHANGED << thrVars, envVars, visVars, ringVars, planVars, execVars,
                  histVars, log >>

PromptExecuteReturn ==
  /\ pc = "wait_exec"
  /\ PromptReturn("execute")
  /\ steps' = Append(steps, "prompt_execute")
  /\ n_exec_confirmed' = Sat(n_exec_confirmed)
  /\ UNCHANGED << thrVars, envVars, visVars, ringVars, planVars, execVars,
                  iter, log >>

\* move_group.execute(trajectory); the returned error code is dropped.
Execute ==
  /\ pc = "execute"
  /\ exec_arg' = trajectory
  /\ exec_result' \in ErrorCodes
  /\ n_execute' = Sat(n_execute)
  /\ steps' = Append(steps, "execute")
  /\ pc' = "clear"
  /\ UNCHANGED << thrVars, rcVars, envVars, visVars, ringVars, planVars, iter,
                  n_exec_confirmed, log >>

ClearMarkers ==
  /\ pc = "clear"
  /\ batch' = Append(batch, DeleteAllOp)
  /\ pc' = "clear_trigger"
  /\ UNCHANGED << displayed, thrVars, rcVars, envVars, ringVars, planVars,
                  execVars, histVars, log >>

\* The trigger() that ends the loop body.
MutClearTrigger ==
  /\ pc = "clear_trigger"
  /\ pc' = "loop"
  /\ steps' = Append(steps, "clear")
  /\ iter' = Sat(iter)
  /\ UNCHANGED << visVars, thrVars, rcVars, envVars, ringVars, planVars,
                  execVars, n_exec_confirmed, log >>

ClearTrigger ==
  /\ pc = "clear_trigger"
  /\ TriggerTo("loop")
  /\ steps' = Append(steps, "clear")
  /\ iter' = Sat(iter)
  /\ UNCHANGED << thrVars, rcVars, envVars, ringVars, planVars, execVars,
                  n_exec_confirmed, log >>

MainStep ==
  \/ StartSpinThread
  \/ SetupVisualTools
  \/ SetupTrigger
  \/ PrintInfo
  \/ LoopHead
  \/ PromptPlan
  \/ PromptPlanReturn
  \/ DeclareWaypoints
  \/ ForBody
  \/ ForExit
  \/ DeclareTrajectory
  \/ ComputeCartesianPath
  \/ LogFraction
  \/ Visualize
  \/ VisualizeTrigger
  \/ PromptExecute
  \/ PromptExecuteReturn
  \/ Execute
  \/ ClearMarkers
  \/ ClearTrigger

Next == MainStep \/ OperatorNext \/ SpinThread

Spec == Init /\ [][Next]_vars

\* Each prompt is eventually confirmed and dispatched, and main() keeps
\* running whenever it is not blocked.
FairSpec ==
  Spec /\ WF_vars(MainStep) /\ WF_vars(OperatorNext) /\ WF_vars(SpinThread)

\* ================================================================ claims
\* The pc values of the loop body after the ring has been built.
AfterRing ==
  { "declare_trajectory", "compute", "log_fraction", "visualize", "trigger",
    "prompt_exec", "wait_exec", "execute", "clear", "clear_trigger" }

\* The pc values between the return of computeCartesianPath and execute.
Planned == { "log_fraction", "visualize", "trigger", "prompt_exec", "wait_exec", "execute" }

\* C1: execute is called only after the 'execute the trajectory' prompt of
\* the same iteration has returned, and never more often than that prompt
\* has been confirmed.
C1_ExecuteGatedByConfirmation ==
  /\ n_execute <= n_exec_confirmed
  /\ pc = "execute" => steps[Len(steps)] = "prompt_execute"
  /\ pc \in {"clear", "clear_trigger"} =>
       \E i \in 1..Len(steps) - 1 :
          steps[i] = "prompt_execute" /\ steps[i + 1] = "execute"
  /\ pc \in {"prompt_plan", "wait_plan", "declare", "for"} \cup (AfterRing \ {"execute", "clear", "clear_trigger"})
       => \A i \in 1..Len(steps) : steps[i] # "execute"

C1_Witness ==
  /\ pc = "clear"
  /\ n_execute = 1
  /\ n_exec_confirmed = 1
  /\ exec_arg = trajectory

\* The steps of one iteration, in the order of the loop body.
IterationOrder ==
  << "prompt_plan", "build_ring", "computeCartesianPath", "publish",
     "prompt_execute", "execute", "clear" >>

IsPrefix(s, t) ==
  /\ Len(s) <= Len(t)
  /\ \A i \in 1..Len(s) : s[i] = t[i]

\* The number of steps an iteration has completed when main() is at p.
StepsDoneAt(p) ==
  CASE p \in {"prompt_plan", "wait_plan"} -> 0
    [] p \in {"declare", "for"} -> 1
    [] p \in {"declare_trajectory", "compute"} -> 2
    [] p \in {"log_fraction", "visualize", "trigger"} -> 3
    [] p \in {"prompt_exec", "wait_exec"} -> 4
    [] p = "execute" -> 5
    [] p \in {"clear", "clear_trigger"} -> 6
    [] p = "loop" -> IF iter = 0 THEN 0 ELSE 7
    [] OTHER -> 0

\* C2: every iteration performs plan prompt, ring, computeCartesianPath,
\* publication, execute prompt, execute, clear in this order, none skipped
\* or reordered; computeCartesianPath never precedes the plan prompt.
C2_FixedStepOrder ==
  /\ IsPrefix(steps, IterationOrder)
  /\ Len(steps) = StepsDoneAt(pc)
  /\ pc = "log_fraction" => steps[1] = "prompt_plan"

C2_Witness ==
  /\ pc = "loop"
  /\ iter >= 2
  /\ steps = IterationOrder

\* C3: the program never leaves the loop: the statements after it are never
\* reached, and under fair scheduling (prompts confirmed, calls returning)
\* the clearing of the markers always leads back to the plan prompt, again
\* and again.
C3_LoopNeverLeft ==
  /\ [](pc # "exited")
  /\ ((pc = "clear") ~> (pc = "wait_plan"))
  /\ []<>(pc = "execute")

C3_Witness ==
  /\ pc = "wait_plan"
  /\ iter >= 1
  /\ n_execute >= 1

\* C4: the value returned by each library call of the loop that reports
\* failure through it is logged: the achieved fraction after
\* computeCartesianPath, the error code after execute.
C4_ReturnValuesLogged ==
  /\ pc \in (Planned \ {"log_fraction"}) =>
       \E i \in 1..Len(log) : log[i] = [msg |-> "achieved", value |-> fraction * 100]
  /\ pc \in {"clear", "clear_trigger"} =>
       \E i \in 1..Len(log) : log[i].msg = "error_code" /\ log[i].value = exec_result

Abs(a) == IF a < 0 THEN 0 - a ELSE a

\* The tolerance of a comparison of fixed-point numbers: 0.01.
Tol == Scale \div 100

Near(u, v) == \A i \in 1..3 : Abs(u[i] - v[i]) <= Tol

\* C5: the waypoint at angle a lies at center + 0.2 * (cos a, sin a, 0) and
\* its orientation turns the forward axis (1, 0, 0) into the direction to
\* the center, (-cos a, -sin a, 0); also at angle 0, the antiparallel case.
C5_WaypointsFaceCenter ==
  \A i \in 1..Len(waypoints) :
    LET a == (i - 1) * AngleStep
    IN  /\ Near(waypoints[i].position,
                << center_pos[1] + RDiv(2 * cos(a), 10),
                   center_pos[2] + RDiv(2 * sin(a), 10),
                   center_pos[3] >>)
        /\ Near(quatRotate(waypoints[i].orientation, <<Scale, 0, 0>>),
                <<0 - cos(a), 0 - sin(a), 0>>)

C5_Witness ==
  /\ pc = "compute"
  /\ Len(waypoints) = 13
  /\ waypoints[1].orientation[4] = 0
  /\ waypoints[1].orientation[2] # 0

\* C6: exactly one spin thread runs: started in setup before any prompt,
\* none started later, and its executor is alive as long as it runs.
C6_OneSpinThread ==
  /\ [](pc = "start" => spin_threads = 0 /\ ~is_waiting /\ steps = <<>>)
  /\ [](pc # "start" => spin_threads = 1 /\ executor = "alive")
  /\ [][pc # "start" => spin_threads' = spin_threads]_vars

C6_Witness ==
  /\ pc = "wait_exec"
  /\ iter >= 2
  /\ spin_threads = 1
  /\ executor = "alive"

\* C7: the waypoint list and the trajectory start every iteration empty:
\* the list passed to computeCartesianPath is the same in every iteration,
\* and execute gets what computeCartesianPath wrote in this iteration
\* (nothing, when it failed), never an earlier trajectory.
C7_TransientPerIteration ==
  /\ pc = "for" /\ angle = 0 => waypoints = <<>>
  /\ pc = "compute" => trajectory = EmptyTrajectory
  /\ pc \in Planned \cup {"clear", "clear_trigger"} /\ iter >= 1
       => planner_input = prev_planner_input
  /\ pc \in Planned => trajectory = planner_written
  /\ pc \in {"clear", "clear_trigger"} => exec_arg = planner_written

C7_Witness ==
  /\ pc = "execute"
  /\ iter >= 1
  /\ exec_arg # EmptyTrajectory
  /\ fraction = FailedFraction
  /\ trajectory = EmptyTrajectory

\* C8: whatever fraction computeCartesianPath returned (partial, zero or the
\* failure value), the execute prompt is shown and, once confirmed, execute
\* is called with the trajectory.
C8_NoBranchOnFraction ==
  /\ \A f \in Fractions \cup {FailedFraction} :
       (pc = "log_fraction" /\ fraction = f)
          ~> (pc = "clear" /\ fraction = f /\ exec_arg = trajectory)
  /\ \A f \in Fractions \cup {FailedFraction} :
       (pc = "log_fraction" /\ fraction = f) ~> (pc = "wait_exec" /\ fraction = f)
  /\ [][pc = "log_fraction" => pc' \in {"log_fraction", "visualize"}]_vars

C8_Witness ==
  /\ pc = "clear"
  /\ fraction = FailedFraction
  /\ exec_arg = EmptyTrajectory
  /\ n_execute >= 1

\* C9: every iteration generates exactly 13 waypoints, at the angles 0, 0.5,
\* ..., 6.0 rad, all below 2*pi; the ring is open: the last waypoint is not
\* the first one again, and a gap smaller than one step remains.
C9_ThirteenWaypoints ==
  /\ pc = "for" => angle = AngleStep * Len(waypoints) /\ Len(waypoints) <= 13
  /\ pc \in AfterRing => Len(waypoints) = 13 /\ angle = 13 * AngleStep
  /\ pc \in {"for"} \cup AfterRing =>
       \A i \in 1..Len(waypoints) :
          /\ (i - 1) * AngleStep < 2 * M_PI
          /\ waypoints[i] = RobotPose((i - 1) * AngleStep, svd_axis)
          /\ \A j \in 1..Len(waypoints) :
                i # j => waypoints[i].position # waypoints[j].position
  /\ 12 * AngleStep < 2 * M_PI
  /\ 2 * M_PI - 12 * AngleStep < AngleStep

C9_Witness ==
  /\ pc = "declare_trajectory"
  /\ iter >= 1
  /\ Len(waypoints) = 13
  /\ angle = 6500000

\* The labels pt0 .. pt12.
ExpectedLabels ==
  << "pt0", "pt1", "pt2", "pt3", "pt4", "pt5", "pt6", "pt7", "pt8", "pt9",
     "pt10", "pt11", "pt12" >>

\* C10: at the execute prompt the display holds exactly the text
\* 'Cartesian_Path', the path through all waypoints and one axis per waypoint
\* labelled pt0 .. pt(n-1) in order; at the plan prompt of every iteration
\* after the first it holds nothing.
C10_MarkersMatchWaypoints ==
  /\ pc \in {"prompt_exec", "wait_exec"} =>
       /\ Len(displayed) = Len(waypoints) + 2
       /\ displayed[1] = [kind |-> "text", text |-> "Cartesian_Path"]
       /\ displayed[2] = [kind |-> "path",
                          points |-> [i \in 1..Len(waypoints) |-> waypoints[i].position]]
       /\ \A i \in 1..Len(waypoints) :
            displayed[i + 2] = [kind |-> "axis", pose |-> waypoints[i],
                                label |-> ExpectedLabels[i]]
  /\ pc \in {"prompt_plan", "wait_plan"} /\ iter >= 1 => displayed = <<>>

C10_Witness ==
  /\ pc = "wait_exec"
  /\ iter >= 1
  /\ Len(displayed) = 15
  /\ displayed[15].label = "pt12"

\* The pc values at which main() is about to block or is blocked: before and
\* inside a prompt, and before the call of execute.
Blocking == { "prompt_plan", "wait_plan", "prompt_exec", "wait_exec", "execute" }

\* C11: whenever the program is about to block in a prompt or in execute, no
\* marker operation is queued unpublished: every batch of deleteAllMarkers
\* and publish calls, of setup and of every iteration, has been triggered;
\* and the remote control is loaded before the first prompt.
C11_NothingUnpublishedWhenBlocking ==
  /\ pc \in Blocking \cup {"info", "loop"} => batch = <<>>
  /\ pc \in Blocking => remote_control
  /\ is_waiting => remote_control /\ batch = <<>>
  /\ pc \in {"setup_trigger", "trigger", "clear_trigger"} => batch # <<>>

C11_Witness ==
  /\ pc = "wait_plan"
  /\ is_waiting
  /\ iter >= 1
  /\ batch = <<>>
  /\ remote_control
  /\ log = <<>>

====
